---------------------------- MODULE Spec2Model ----------------------------
(***************************************************************************)
(* Firswood Intelligence Chat API (src/main.py): the three-phase           *)
(* conversation classifier, the field extractor, the readiness gate, the   *)
(* /api/chat handler and the /api/submit-brief handler.                    *)
(*                                                                         *)
(* Python values are represented as follows.                               *)
(*   str            a TLA+ string                                          *)
(*   Optional[str]  None is <<>>, the string s is <<s>>                    *)
(*   a JSON value   a record with a tag t: "dict" (with the mapping d),    *)
(*                  "list", "str", "None"                                  *)
(*   Message        [role |-> r, content |-> c]                            *)
(***************************************************************************)
EXTENDS Integers, Sequences, FiniteSets, TLC

VARIABLES
    GOOGLE_API_KEY,     \* TRUE iff the environment gave a completion credential
    SLACK_WEBHOOK_URL,  \* TRUE iff the environment gave a webhook URL
    phase,              \* the phase the caller holds and sends with the next request
    history,            \* the conversation history the caller holds
    draft,              \* the message the caller is composing (a sequence of fragments)
    call,               \* the last application of a pure function, with its result
    pc,                 \* position of the request being handled
    request,            \* the payload of the request being handled
    locals,             \* the handler's local variables
    log,                \* what the handler of the current request has done so far
    response,           \* the HTTP response of the last request that ended
    webhookPosts,       \* number of POSTs made to the webhook
    running,            \* the worker whose request the variables above describe
    parked,             \* for every other worker, its caller and its request
    lead,               \* the record the caller received with its last turn
    signals             \* the turns the caller received with should_submit_brief true

vars == <<GOOGLE_API_KEY, SLACK_WEBHOOK_URL, phase, history, draft, call,
          pc, request, locals, log, response, webhookPosts, running, parked, lead,
          signals>>

-----------------------------------------------------------------------------
(* Bounds of the model                                                     *)

MaxFrags == 2       \* fragments in one composed user message
MaxHist == 2        \* messages in a caller-held history

-----------------------------------------------------------------------------
(* Python str operations                                                   *)

None == <<>>
Some(s) == <<s>>

\* str.lower() on one character
LowerChar(c) ==
    CASE c = "A" -> "a" [] c = "B" -> "b" [] c = "C" -> "c" [] c = "D" -> "d"
      [] c = "E" -> "e" [] c = "F" -> "f" [] c = "G" -> "g" [] c = "H" -> "h"
      [] c = "I" -> "i" [] c = "J" -> "j" [] c = "K" -> "k" [] c = "L" -> "l"
      [] c = "M" -> "m" [] c = "N" -> "n" [] c = "O" -> "o" [] c = "P" -> "p"
      [] c = "Q" -> "q" [] c = "R" -> "r" [] c = "S" -> "s" [] c = "T" -> "t"
      [] c = "U" -> "u" [] c = "V" -> "v" [] c = "W" -> "w" [] c = "X" -> "x"
      [] c = "Y" -> "y" [] c = "Z" -> "z" [] OTHER -> c

RECURSIVE Lower(_)
Lower(s) == IF s = "" THEN "" ELSE LowerChar(Head(s)) \o Lower(Tail(s))

IsSpace(c) == c \in {" ", "\n", "\t", "\r"}

RECURSIVE LStrip(_)
LStrip(s) == IF s # "" /\ IsSpace(Head(s)) THEN LStrip(Tail(s)) ELSE s

RECURSIVE RStrip(_)
RStrip(s) ==
    IF s # "" /\ IsSpace(SubSeq(s, Len(s), Len(s)))
    THEN RStrip(SubSeq(s, 1, Len(s) - 1))
    ELSE s

\* str.strip()
Strip(s) == RStrip(LStrip(s))

\* k in s
Contains(k, s) ==
    \E i \in 1..(Len(s) - Len(k) + 1) : SubSeq(s, i, i + Len(k) - 1) = k

\* any(k in s for k in kws)
AnyIn(kws, s) == \E k \in kws : Contains(k, s)

StartsWith(s, p) == Len(s) >= Len(p) /\ SubSeq(s, 1, Len(p)) = p
EndsWith(s, p) == Len(s) >= Len(p) /\ SubSeq(s, Len(s) - Len(p) + 1, Len(s)) = p

RECURSIVE Join(_)
Join(parts) == IF parts = <<>> THEN "" ELSE Head(parts) \o Join(Tail(parts))

-----------------------------------------------------------------------------
(* The phase classifier                                                    *)

Phases == {"phase1", "phase2", "phase3"}

project_keywords ==
    {"i want", "i need", "we need", "build", "create", "develop", "project",
     "yes i have", "yes we have"}

call_keywords ==
    {"schedule", "book", "call", "meeting", "talk", "discuss", "discovery", "yes"}

ai_call_words == {"discovery call", "schedule", "book"}

Msg(r, c) == [role |-> r, content |-> c]

\* next((m.content for m in reversed(conversation_history) if m.role == "assistant"), "")
RECURSIVE last_ai_msg(_)
last_ai_msg(h) ==
    IF h = <<>> THEN ""
    ELSE IF h[Len(h)].role = "assistant" THEN h[Len(h)].content
    ELSE last_ai_msg(SubSeq(h, 1, Len(h) - 1))

\* the model's detect_phase_transition with the first assistant message of the
\* history taken instead of the last (reversed() forgotten)
RECURSIVE first_ai_msg(_)
first_ai_msg(h) ==
    IF h = <<>> THEN ""
    ELSE IF Head(h).role = "assistant" THEN Head(h).content
    ELSE first_ai_msg(Tail(h))

detect_phase_transition_first_ai(message, conversation_history, current_phase) ==
    LET msg_lower == Lower(message) IN
    IF current_phase = "phase1" /\ AnyIn(project_keywords, msg_lower)
    THEN "phase2"
    ELSE IF /\ current_phase = "phase2"
            /\ Len(conversation_history) > 0
            /\ AnyIn(ai_call_words, Lower(first_ai_msg(conversation_history)))
            /\ AnyIn(call_keywords, msg_lower)
    THEN "phase3"
    ELSE current_phase

\* ... with the message compared as typed (message.lower() forgotten)
detect_phase_transition_case_sensitive(message, conversation_history, current_phase) ==
    LET msg_lower == message IN
    IF current_phase = "phase1" /\ AnyIn(project_keywords, msg_lower)
    THEN "phase2"
    ELSE IF /\ current_phase = "phase2"
            /\ Len(conversation_history) > 0
            /\ AnyIn(ai_call_words, Lower(last_ai_msg(conversation_history)))
            /\ AnyIn(call_keywords, msg_lower)
    THEN "phase3"
    ELSE current_phase

\* ... with the project rule tried in every phase (its phase test forgotten)
detect_phase_transition_unguarded(message, conversation_history, current_phase) ==
    LET msg_lower == Lower(message) IN
    IF AnyIn(project_keywords, msg_lower)
    THEN "phase2"
    ELSE IF /\ current_phase = "phase2"
            /\ Len(conversation_history) > 0
            /\ AnyIn(ai_call_words, Lower(last_ai_msg(conversation_history)))
            /\ AnyIn(call_keywords, msg_lower)
    THEN "phase3"
    ELSE current_phase

\* ... with phase1 returned when no rule fires
detect_phase_transition_regress(message, conversation_history, current_phase) ==
    LET msg_lower == Lower(message) IN
    IF current_phase = "phase1" /\ AnyIn(project_keywords, msg_lower)
    THEN "phase2"
    ELSE IF /\ current_phase = "phase2"
            /\ Len(conversation_history) > 0
            /\ AnyIn(ai_call_words, Lower(last_ai_msg(conversation_history)))
            /\ AnyIn(call_keywords, msg_lower)
    THEN "phase3"
    ELSE "phase1"

\* ... with the call rule tried on the phase the project rule has just given
detect_phase_transition_chained(message, conversation_history, current_phase) ==
    LET msg_lower == Lower(message)
        after_project == IF current_phase = "phase1" /\ AnyIn(project_keywords, msg_lower)
                         THEN "phase2" ELSE current_phase
    IN  IF /\ after_project = "phase2"
           /\ Len(conversation_history) > 0
           /\ AnyIn(ai_call_words, Lower(last_ai_msg(conversation_history)))
           /\ AnyIn(call_keywords, msg_lower)
        THEN "phase3"
        ELSE after_project

detect_phase_transition(message, conversation_history, current_phase) ==
    LET msg_lower == Lower(message) IN
    IF current_phase = "phase1" /\ AnyIn(project_keywords, msg_lower)
    THEN "phase2"
    ELSE IF /\ current_phase = "phase2"
            /\ Len(conversation_history) > 0
            /\ AnyIn(ai_call_words, Lower(last_ai_msg(conversation_history)))
            /\ AnyIn(call_keywords, msg_lower)
    THEN "phase3"
    ELSE current_phase

-----------------------------------------------------------------------------
(* The values a handler leaves behind when no request is being handled     *)

NoCall == [fn |-> "none"]
NoRequest == [kind |-> "none"]
NoLocals == [set |-> FALSE]
NoResponse == [status |-> "none"]

\* the workers that serve requests, and what is kept of a worker that is not
\* the running one
Workers == {"w1", "w2"}
NoContext ==
    [phase |-> "phase1", history |-> <<>>, pc |-> "idle", request |-> NoRequest,
     locals |-> NoLocals, log |-> <<>>, response |-> NoResponse]

ServerIdle ==
    /\ pc = "idle"
    /\ request = NoRequest
    /\ locals = NoLocals
    /\ log = <<>>
    /\ response = NoResponse
    /\ webhookPosts = 0
    /\ running = "w1"
    /\ parked = [w \in Workers |-> NoContext]
    /\ lead = [t |-> "None"]
    /\ signals = 0

serverVars == <<pc, request, locals, log, response, webhookPosts>>
configVars == <<GOOGLE_API_KEY, SLACK_WEBHOOK_URL>>
workerVars == <<running, parked>>

-----------------------------------------------------------------------------
(* SpecClassify: detect_phase_transition applied again and again, each     *)
(* call receiving the phase the previous call returned. The caller         *)
(* composes the message from fragments and supplies any history.           *)

UserFrags == {"I Want ", "pro", "ject", "Yes", "tell me more"}

HistMsgs ==
    { Msg("assistant", "Would you like to Schedule a discovery call?"),
      Msg("assistant", "What is your budget?"),
      Msg("assistant", "BOOK a slot here"),
      Msg("user", "please book me in"),
      Msg("system", "discovery call") }

InitClassify ==
    /\ GOOGLE_API_KEY = TRUE
    /\ SLACK_WEBHOOK_URL = TRUE
    /\ phase \in Phases
    /\ history = <<>>
    /\ draft = <<>>
    /\ call = NoCall
    /\ ServerIdle

\* the caller types one more fragment of the next message
Type(f) ==
    /\ Len(draft) < MaxFrags
    /\ draft' = Append(draft, f)
    /\ call' = NoCall
    /\ UNCHANGED <<configVars, workerVars, lead, signals, phase, history, serverVars>>

\* the caller holds a history that ends with one more message
AppendHistory(m) ==
    /\ Len(history) < MaxHist
    /\ history' = Append(history, m)
    /\ call' = NoCall
    /\ UNCHANGED <<configVars, workerVars, lead, signals, phase, draft, serverVars>>

\* the caller starts over with an empty history
ClearHistory ==
    /\ history # <<>>
    /\ history' = <<>>
    /\ call' = NoCall
    /\ UNCHANGED <<configVars, workerVars, lead, signals, phase, draft, serverVars>>

Classify ==
    /\ LET ret == detect_phase_transition(Join(draft), history, phase) IN
       /\ call' = [fn |-> "detect_phase_transition", message |-> Join(draft),
                   conversation_history |-> history, current_phase |-> phase,
                   ret |-> ret]
       /\ phase' = ret
    /\ draft' = <<>>
    /\ UNCHANGED <<configVars, workerVars, lead, signals, history, serverVars>>

NextClassify ==
    \/ \E f \in UserFrags : Type(f)
    \/ \E m \in HistMsgs : AppendHistory(m)
    \/ ClearHistory
    \/ Classify

SpecClassify == InitClassify /\ [][NextClassify]_vars

IsDetectCall == call.fn = "detect_phase_transition"

PhaseRank(p) == CASE p = "phase1" -> 1 [] p = "phase2" -> 2 [] p = "phase3" -> 3

\* s holds keyword k at some position, letter case ignored
HasKeywordCI(k, s) ==
    \E i \in 1..(Len(s) - Len(k) + 1) :
        \A j \in 1..Len(k) : LowerChar(SubSeq(s, i + j - 1, i + j - 1)) = SubSeq(k, j, j)

\* the latest user message signals project intent
ProjectIntent(m) == \E k \in project_keywords : HasKeywordCI(k, m)

\* the latest user message accepts or asks for a call
UserAgrees(m) == \E k \in call_keywords : HasKeywordCI(k, m)

\* the most recent assistant turn of h exists and mentions a call
AssistantOfferedCall(h) ==
    \E i \in 1..Len(h) :
        /\ h[i].role = "assistant"
        /\ \A j \in (i + 1)..Len(h) : h[j].role # "assistant"
        /\ \E k \in ai_call_words : HasKeywordCI(k, h[i].content)

\* C1: over any sequence of detect_phase_transition calls, each given the phase
\* the previous one returned, the phase never decreases in the order
\* phase1 < phase2 < phase3.
C1_PhaseMonotonic == [][PhaseRank(phase') >= PhaseRank(phase)]_vars

\* a call made in the last phase with a message that carries project intent
C1_Witness ==
    /\ IsDetectCall
    /\ call.current_phase = "phase3"
    /\ ProjectIntent(call.message)
    /\ call.ret = "phase3"

\* C2: called with phase2, detect_phase_transition returns phase3 if and only if
\* the most recent assistant turn of the history holds a call-related keyword and
\* the latest user message holds an affirmative/scheduling keyword (letter case
\* ignored); in every other case it returns phase2.
C2_CallAcceptance ==
    (IsDetectCall /\ call.current_phase = "phase2") =>
        call.ret = IF AssistantOfferedCall(call.conversation_history)
                      /\ UserAgrees(call.message)
                   THEN "phase3" ELSE "phase2"

\* the user agrees after a history whose last turn is not the assistant's
C2_Witness ==
    /\ IsDetectCall
    /\ call.current_phase = "phase2"
    /\ call.ret = "phase3"
    /\ Len(call.conversation_history) = 2
    /\ call.conversation_history[2].role # "assistant"

\* C3: called with phase1, detect_phase_transition returns phase2 if and only if
\* the latest user message, letter case ignored, holds a project-intent keyword;
\* otherwise it returns phase1. The history plays no part.
C3_KeywordTransition ==
    (IsDetectCall /\ call.current_phase = "phase1") =>
        call.ret = IF ProjectIntent(call.message) THEN "phase2" ELSE "phase1"

\* project intent typed in capitals, after an assistant turn that offered a call
C3_Witness ==
    /\ IsDetectCall
    /\ call.current_phase = "phase1"
    /\ call.ret = "phase2"
    /\ ~ AnyIn(project_keywords, call.message)
    /\ AssistantOfferedCall(call.conversation_history)

\* C4: when neither rule fires the input phase is returned unchanged; phase3 is
\* terminal; the value returned is one of the three phases.
C4_NoOtherTransition ==
    IsDetectCall =>
        /\ call.ret \in Phases
        /\ call.current_phase = "phase3" => call.ret = "phase3"
        /\ call.ret # call.current_phase =>
              \/ /\ call.current_phase = "phase1"
                 /\ call.ret = "phase2"
                 /\ ProjectIntent(call.message)
              \/ /\ call.current_phase = "phase2"
                 /\ call.ret = "phase3"
                 /\ AssistantOfferedCall(call.conversation_history)
                 /\ UserAgrees(call.message)

\* a call in phase3 whose message and history satisfy both rules
C4_Witness ==
    /\ IsDetectCall
    /\ call.current_phase = "phase3"
    /\ call.ret = "phase3"
    /\ UserAgrees(call.message)
    /\ AssistantOfferedCall(call.conversation_history)

-----------------------------------------------------------------------------
(* The readiness gate                                                      *)

Fields == {"fullName", "workEmail", "company", "phone", "projectType", "timeline", "goal"}

PyDict(d) == [t |-> "dict", d |-> d]
PyList == [t |-> "list"]
PyStr(s) == [t |-> "str", s |-> s]
PyNone == [t |-> "None"]

Return(v) == [ok |-> TRUE, v |-> v]
Raise(e) == [ok |-> FALSE, e |-> e]

\* dict.get(k)
Get(d, k) == IF k \in DOMAIN d THEN d[k] ELSE None

\* bool(v) of an Optional[str]
Truthy(v) == v # None /\ v[1] # ""

decline_keywords == {"no", "not now", "maybe later", "not ready", "not yet", "later"}

\* the model's should_submit_brief with "and" written for "or" in has_project
should_submit_brief_and(extracted_data, old_phase, new_phase, user_message) ==
    IF extracted_data.t # "dict" THEN Raise("AttributeError")
    ELSE
    LET d == extracted_data.d
        has_email == Truthy(Get(d, "workEmail"))
        has_project == Truthy(Get(d, "projectType")) /\ Truthy(Get(d, "goal"))
    IN  IF old_phase = "phase2" /\ new_phase = "phase3"
        THEN Return(has_email /\ has_project)
        ELSE IF /\ old_phase = "phase2" /\ new_phase = "phase2"
                /\ AnyIn(decline_keywords, Strip(Lower(user_message)))
        THEN Return(has_email /\ has_project)
        ELSE Return(FALSE)

\* ... with a name also required of a lead that declines the call
should_submit_brief_needs_name(extracted_data, old_phase, new_phase, user_message) ==
    IF extracted_data.t # "dict" THEN Raise("AttributeError")
    ELSE
    LET d == extracted_data.d
        has_email == Truthy(Get(d, "workEmail"))
        has_project == Truthy(Get(d, "projectType")) \/ Truthy(Get(d, "goal"))
    IN  IF old_phase = "phase2" /\ new_phase = "phase3"
        THEN Return(has_email /\ has_project)
        ELSE IF /\ old_phase = "phase2" /\ new_phase = "phase2"
                /\ AnyIn(decline_keywords, Strip(Lower(user_message)))
        THEN Return(has_email /\ has_project /\ Truthy(Get(d, "fullName")))
        ELSE Return(FALSE)

should_submit_brief(extracted_data, old_phase, new_phase, user_message) ==
    \* extracted_data.get on anything but a dict raises AttributeError
    IF extracted_data.t # "dict" THEN Raise("AttributeError")
    ELSE
    LET d == extracted_data.d
        has_email == Truthy(Get(d, "workEmail"))
        has_project == Truthy(Get(d, "projectType")) \/ Truthy(Get(d, "goal"))
    IN  IF old_phase = "phase2" /\ new_phase = "phase3"
        THEN Return(has_email /\ has_project)
        ELSE IF /\ old_phase = "phase2" /\ new_phase = "phase2"
                /\ AnyIn(decline_keywords, Strip(Lower(user_message)))
        THEN Return(has_email /\ has_project)
        ELSE Return(FALSE)

-----------------------------------------------------------------------------
(* SpecGate: should_submit_brief applied to any record, pair of phases and *)
(* message, on a turn of any count.                                        *)

MaxTurns == 6       \* the largest message count of a turn

\* the values extraction gives the fields the gate and the policies read
ReadValues == {None, Some(""), Some("set"), Some("N/A")}
OtherValues == {None, Some("set")}

GateRecords ==
    { r \in [Fields -> ReadValues] :
        \A k \in Fields \ {"workEmail", "projectType", "goal"} : r[k] \in OtherValues }

GateMessages ==
    {"no", "Not now", "  MAYBE LATER ", "I know", "yes please", "tell me more", ""}

InitGate ==
    /\ GOOGLE_API_KEY = TRUE
    /\ SLACK_WEBHOOK_URL = TRUE
    /\ phase = "phase1"
    /\ history = <<>>
    /\ draft = <<>>
    /\ \E r \in GateRecords, o \in Phases, n \in Phases, m \in GateMessages,
          c \in 1..MaxTurns :
          call = [fn |-> "args", extracted_data |-> PyDict(r), old_phase |-> o,
                  new_phase |-> n, user_message |-> m, message_count |-> c,
                  ret |-> Return(FALSE)]
    /\ ServerIdle

Gate ==
    /\ call.fn = "args"
    /\ call' = [call EXCEPT
                  !.fn = "should_submit_brief",
                  !.ret = should_submit_brief(call.extracted_data, call.old_phase,
                                              call.new_phase, call.user_message)]
    /\ UNCHANGED <<configVars, workerVars, lead, signals, phase, history, draft, serverVars>>

NextGate == Gate

SpecGate == InitGate /\ [][NextGate]_vars

IsGateCall == call.fn = "should_submit_brief"

\* a field of the record holds a value
Present(rec, k) == k \in DOMAIN rec /\ rec[k] # None /\ rec[k] # Some("")

HasEmail(rec) == Present(rec, "workEmail")
HasProjectInfo(rec) == Present(rec, "projectType") \/ Present(rec, "goal")
HasName(rec) == Present(rec, "fullName")
HasCompany(rec) == Present(rec, "company")
HasTimeline(rec) == Present(rec, "timeline")

\* the latest user message declines the call
UserDeclines(m) == \E k \in decline_keywords : HasKeywordCI(k, m)

\* C5: shouldSubmit is true exactly when the record has an email and project
\* information and either the turn goes from phase2 to phase3, or it stays in
\* phase2 and the latest user message holds a decline keyword.
C5_PolicyB ==
    IsGateCall =>
        /\ call.ret.ok
        /\ call.ret.v =
              (/\ HasEmail(call.extracted_data.d)
               /\ HasProjectInfo(call.extracted_data.d)
               /\ \/ call.old_phase = "phase2" /\ call.new_phase = "phase3"
                  \/ /\ call.old_phase = "phase2" /\ call.new_phase = "phase2"
                     /\ UserDeclines(call.user_message))

\* a lead with an email and a goal only declines in capitals, padded with blanks
C5_Witness ==
    /\ IsGateCall
    /\ call.old_phase = "phase2" /\ call.new_phase = "phase2"
    /\ call.user_message = "  MAYBE LATER "
    /\ ~ Present(call.extracted_data.d, "projectType")
    /\ call.ret.ok /\ call.ret.v

\* C6 as claimed: on a turn that is and stays in phase2, shouldSubmit is
\* hasEmail, hasProjectInfo, hasName, (hasCompany or hasTimeline) and a turn
\* count of at least 6, whatever the message.
C6_PolicyA_Claimed ==
    (IsGateCall /\ call.old_phase = "phase2" /\ call.new_phase = "phase2") =>
        /\ call.ret.ok
        /\ call.ret.v =
              (/\ HasEmail(call.extracted_data.d)
               /\ HasProjectInfo(call.extracted_data.d)
               /\ HasName(call.extracted_data.d)
               /\ HasCompany(call.extracted_data.d) \/ HasTimeline(call.extracted_data.d)
               /\ call.message_count >= 6)

\* C6, amended: on a turn that is and stays in phase2, shouldSubmit is hasEmail,
\* hasProjectInfo and a decline keyword in the message; the name, the company,
\* the timeline and the turn count play no part.
C6_StayInPhase2 ==
    (IsGateCall /\ call.old_phase = "phase2" /\ call.new_phase = "phase2") =>
        /\ call.ret.ok
        /\ call.ret.v =
              (/\ HasEmail(call.extracted_data.d)
               /\ HasProjectInfo(call.extracted_data.d)
               /\ UserDeclines(call.user_message))

\* the record of the claim (email, goal, name, company) at turn count 6, the user
\* not declining: no submission is signalled
C6_Witness ==
    /\ IsGateCall
    /\ call.old_phase = "phase2" /\ call.new_phase = "phase2"
    /\ HasEmail(call.extracted_data.d) /\ Present(call.extracted_data.d, "goal")
    /\ HasName(call.extracted_data.d) /\ HasCompany(call.extracted_data.d)
    /\ call.message_count = 6
    /\ ~ UserDeclines(call.user_message)
    /\ call.ret.ok /\ ~ call.ret.v

-----------------------------------------------------------------------------
(* The field extractor                                                     *)

NullRecord == [k \in Fields |-> None]

\* conversation_text: one labelled line for each message of the transcript
RECURSIVE conversation_text(_)
conversation_text(h) ==
    IF h = <<>> THEN ""
    ELSE (IF Head(h).role = "user" THEN "User" ELSE "AI")
            \o ": " \o Head(h).content \o "\n" \o conversation_text(Tail(h))

\* The code fence, three backquotes. A TLA+ string cannot hold a backquote: the
\* circumflex stands for it in every text of this module.
Fence == "^^^"

\* the three fence tests on the stripped text of the gateway's answer
strip_fences(text) ==
    LET a == IF StartsWith(text, Fence \o "json") THEN SubSeq(text, 8, Len(text)) ELSE text
        b == IF StartsWith(a, Fence) THEN SubSeq(a, 4, Len(a)) ELSE a
        c == IF EndsWith(b, Fence) THEN SubSeq(b, 1, Len(b) - 3) ELSE b
    IN  c

\* the JSON documents the gateway is made to answer with
JsonLead ==
    "{\"fullName\": \"Ann Lee\", \"workEmail\": \"ann@acme.io\", \"company\": \"Acme\", \"phone\": null, \"projectType\": \"Chatbot\", \"timeline\": null, \"goal\": null}"
JsonGoalOnly ==
    "{\"fullName\": null, \"workEmail\": null, \"company\": null, \"phone\": null, \"projectType\": null, \"timeline\": null, \"goal\": \"Automate support\"}"
JsonOtherKeys == "{\"email\": \"ann@acme.io\"}"
JsonList == "[]"
JsonNull == "null"
JsonString == "\"later\""

LeadValue ==
    [fullName |-> Some("Ann Lee"), workEmail |-> Some("ann@acme.io"),
     company |-> Some("Acme"), phone |-> None, projectType |-> Some("Chatbot"),
     timeline |-> None, goal |-> None]
GoalOnlyValue == [NullRecord EXCEPT !["goal"] = Some("Automate support")]

\* json.loads on those documents; any other text is not JSON
json_loads(text) ==
    CASE text = JsonLead -> Return(PyDict(LeadValue))
      [] text = JsonGoalOnly -> Return(PyDict(GoalOnlyValue))
      [] text = JsonOtherKeys -> Return(PyDict([email |-> Some("ann@acme.io")]))
      [] text = JsonList -> Return(PyList)
      [] text = JsonNull -> Return(PyNone)
      [] text = JsonString -> Return(PyStr("later"))
      [] OTHER -> Raise("JSONDecodeError")

\* what a call of the Completion Gateway comes to
GatewayRaises == [kind |-> "raise", text |-> None]
GatewayText(t) == [kind |-> "text", text |-> t]

\* the model's get_gemini_client asking for the whole configuration
get_gemini_client_needs_webhook ==
    IF GOOGLE_API_KEY /\ SLACK_WEBHOOK_URL THEN Return("client")
    ELSE Raise("configuration incomplete")

\* the model's get_gemini_client without the look at the credential
get_gemini_client_unchecked == Return("client")

\* get_gemini_client: the credential is looked at on every call
get_gemini_client ==
    IF GOOGLE_API_KEY THEN Return("client") ELSE Raise("GOOGLE_API_KEY not found")

\* the model's extract_data_with_ai falling back, when the extraction fails, on
\* the record of the turn before
extract_data_with_ai_sticky(conversation_history, outcome) ==
    LET fallback == IF lead.t = "dict" THEN lead ELSE PyDict(NullRecord)
    IN  IF ~ get_gemini_client.ok THEN fallback
        ELSE IF outcome.kind = "raise" THEN fallback
        ELSE IF outcome.text = None THEN fallback
        ELSE LET extracted_text == strip_fences(Strip(outcome.text[1]))
                 loaded == json_loads(Strip(extracted_text))
             IN  IF loaded.ok THEN loaded.v ELSE fallback

\* extract_data_with_ai, given what its gateway call comes to: every exception
\* raised in the body is caught and answered with the all-null record
extract_data_with_ai(conversation_history, outcome) ==
    IF ~ get_gemini_client.ok THEN PyDict(NullRecord)
    ELSE IF outcome.kind = "raise" THEN PyDict(NullRecord)
    ELSE IF outcome.text = None THEN PyDict(NullRecord)    \* None has no strip()
    ELSE LET extracted_text == strip_fences(Strip(outcome.text[1]))
             loaded == json_loads(Strip(extracted_text))
         IN  IF loaded.ok THEN loaded.v ELSE PyDict(NullRecord)

-----------------------------------------------------------------------------
(* The /api/chat and /api/submit-brief handlers                            *)

MaxPosts == 1       \* POSTs to the webhook in one run

HttpError(detail) == [status |-> 500, detail |-> detail]

\* the model's chat_except with a canned reply returned in place of the error
chat_except_fallback(e) ==
    [status |-> 200, response |-> "Sorry, something went wrong.",
     conversation_phase |-> "phase1", extracted_data |-> PyNone,
     should_submit_brief |-> FALSE]

\* the except clause of chat
chat_except(e) == HttpError(e)

\* the model's phase_or_default with the phase remembered on the server: a
\* request takes the phase another worker's request has left
phase_or_default_shared(p) ==
    LET others == {w \in Workers : w # running /\ parked[w].locals.set}
    IN  IF others # {} THEN parked[CHOOSE w \in others : TRUE].locals.current_phase
        ELSE IF p = None \/ p = Some("") THEN "phase1" ELSE p[1]

\* the model's select_system_prompt choosing by the phase the caller holds
select_system_prompt_of_caller(current_phase) ==
    IF phase = "phase1" THEN "PHASE_1_SYSTEM"
    ELSE IF phase = "phase2" THEN "PHASE_2_SYSTEM"
    ELSE "PHASE_3_SYSTEM"

\* request.conversation_phase or "phase1"
phase_or_default(p) == IF p = None \/ p = Some("") THEN "phase1" ELSE p[1]

select_system_prompt(current_phase) ==
    IF current_phase = "phase1" THEN "PHASE_1_SYSTEM"
    ELSE IF current_phase = "phase2" THEN "PHASE_2_SYSTEM"
    ELSE "PHASE_3_SYSTEM"

\* the model's build_contents with the new message put first
build_contents_message_first(conversation_history, message) ==
    [i \in 1..(Len(conversation_history) + 1) |->
        IF i = 1 THEN [role |-> "user", text |-> message]
        ELSE [role |-> IF conversation_history[i - 1].role = "user" THEN "user" ELSE "model",
              text |-> conversation_history[i - 1].content]]

\* the turns handed to the reply-generating gateway call
build_contents(conversation_history, message) ==
    [i \in 1..(Len(conversation_history) + 1) |->
        IF i <= Len(conversation_history)
        THEN [role |-> IF conversation_history[i].role = "user" THEN "user" ELSE "model",
              text |-> conversation_history[i].content]
        ELSE [role |-> "user", text |-> message]]

\* the guard of the extraction block
extraction_due(current_phase, new_phase) ==
    current_phase = "phase2" \/ new_phase = "phase3"

ChatMessages ==
    {"I need a chatbot", "Yes", "not now", "what is RAG?", "No, let's BOOK a call"}

Replies == {"Would you like to schedule a discovery call?", "What is your work email?"}

GenOutcomes == {GatewayRaises, GatewayText(None)} \cup {GatewayText(Some(r)) : r \in Replies}

ExtractTexts ==
    {JsonLead, Fence \o "json\n" \o JsonGoalOnly \o "\n" \o Fence, JsonOtherKeys, JsonList,
     " " \o JsonNull \o "\n", JsonString, "Sorry, I cannot help with that."}

ExtractOutcomes ==
    {GatewayRaises, GatewayText(None)} \cup {GatewayText(Some(t)) : t \in ExtractTexts}

Briefs == {LeadValue, NullRecord}

Init ==
    /\ GOOGLE_API_KEY \in BOOLEAN
    /\ SLACK_WEBHOOK_URL \in BOOLEAN
    /\ phase \in Phases
    /\ history = <<>>
    /\ draft = <<>>
    /\ call = NoCall
    /\ ServerIdle

\* the request ends: its response is ready for the caller
Respond(r) ==
    /\ response' = r
    /\ pc' = "idle"

\* the model's ChatRespond with the brief posted to the webhook as soon as the
\* gate says so
ChatRespond_posts(l) ==
    /\ locals' = l
    /\ IF l.reply = None \/ l.extracted_data.t \notin {"dict", "None"}
       THEN Respond(chat_except("ValidationError"))
       ELSE Respond([status |-> 200,
                     response |-> l.reply[1],
                     conversation_phase |-> l.current_phase,
                     extracted_data |-> l.extracted_data,
                     should_submit_brief |-> l.should_submit])
    /\ webhookPosts' = IF l.should_submit THEN webhookPosts + 1 ELSE webhookPosts

\* the return statement of chat
ChatRespond(l) ==
    /\ locals' = l
    /\ IF l.reply = None \/ l.extracted_data.t \notin {"dict", "None"}
       THEN Respond(chat_except("ValidationError"))
       ELSE Respond([status |-> 200,
                     response |-> l.reply[1],
                     conversation_phase |-> l.current_phase,
                     extracted_data |-> l.extracted_data,
                     should_submit_brief |-> l.should_submit])
    /\ UNCHANGED webhookPosts

\* chat, from its first line to the reply-generating gateway call
ChatStart(message, sent_phase) ==
    /\ pc = "idle" /\ response = NoResponse
    /\ request' = [kind |-> "chat", message |-> message,
                   conversation_history |-> history, conversation_phase |-> sent_phase]
    /\ LET old_phase == phase_or_default(sent_phase)
           new_phase == detect_phase_transition(message, history, old_phase)
           current_phase == IF new_phase # old_phase THEN new_phase ELSE old_phase
           l == [set |-> TRUE,
                 message_count |-> Len(history) + 1,
                 old_phase |-> old_phase,
                 new_phase |-> new_phase,
                 current_phase |-> current_phase,
                 system_prompt |-> select_system_prompt(current_phase),
                 contents |-> build_contents(history, message),
                 reply |-> None,
                 temp_history |-> <<>>,
                 conversation_text |-> "",
                 extract_outcome |-> [kind |-> "none", text |-> None],
                 extracted_data |-> PyNone,
                 should_submit |-> FALSE]
       IN  /\ locals' = l
           /\ IF get_gemini_client.ok
              THEN /\ pc' = "generating"
                   /\ log' = <<"generate_content">>
                   /\ UNCHANGED response
              ELSE /\ log' = <<"get_gemini_client raises">>
                   /\ Respond(chat_except(get_gemini_client.e))
    /\ UNCHANGED <<configVars, workerVars, lead, signals, phase, history, draft, call, webhookPosts>>

\* chat, from the return of the reply-generating call to the extraction call
\* (or to the end of the request when no extraction is due)
GenerateReturn(outcome) ==
    /\ pc = "generating"
    /\ IF outcome.kind = "raise"
       THEN /\ log' = Append(log, "generate_content raises")
            /\ Respond(chat_except("gateway error"))
            /\ UNCHANGED <<locals, webhookPosts>>
       ELSE IF extraction_due(locals.current_phase, locals.new_phase)
       THEN IF outcome.text = None
            THEN \* Message(content=None) is refused
                 /\ log' = Append(log, "generate_content returns")
                 /\ Respond(chat_except("ValidationError"))
                 /\ UNCHANGED <<locals, webhookPosts>>
            ELSE /\ locals' = [locals EXCEPT
                                 !.reply = outcome.text,
                                 !.temp_history =
                                     request.conversation_history \o
                                     <<Msg("user", request.message),
                                       Msg("assistant", outcome.text[1])>>,
                                 !.conversation_text =
                                     conversation_text(
                                         request.conversation_history \o
                                         <<Msg("user", request.message),
                                           Msg("assistant", outcome.text[1])>>)]
                 /\ log' = log \o <<"generate_content returns", "extract: generate_content">>
                 /\ pc' = "extracting"
                 /\ UNCHANGED <<response, webhookPosts>>
       ELSE /\ log' = Append(log, "generate_content returns")
            /\ ChatRespond([locals EXCEPT !.reply = outcome.text])
    /\ UNCHANGED <<configVars, workerVars, lead, signals, phase, history, draft, call, request>>

\* chat, from the return of the extraction call to the end of the request
ExtractReturn(outcome) ==
    /\ pc = "extracting"
    /\ LET extracted_data == extract_data_with_ai(locals.temp_history, outcome)
           gate == should_submit_brief(extracted_data, locals.old_phase,
                                       locals.new_phase, request.message)
           l == [locals EXCEPT !.extract_outcome = outcome,
                               !.extracted_data = extracted_data]
       IN  IF gate.ok
           THEN /\ log' = log \o <<"extract returns", "should_submit_brief returns">>
                /\ ChatRespond([l EXCEPT !.should_submit = gate.v])
           ELSE /\ log' = log \o <<"extract returns", "should_submit_brief raises">>
                /\ locals' = l
                /\ Respond(chat_except(gate.e))
                /\ UNCHANGED webhookPosts
    /\ UNCHANGED <<configVars, workerVars, lead, signals, phase, history, draft, call, request>>

\* submit_brief, from its first line to the POST to the webhook
SubmitStart(brief) ==
    /\ pc = "idle" /\ response = NoResponse
    /\ webhookPosts < MaxPosts
    /\ request' = [kind |-> "submit", brief_data |-> brief]
    /\ locals' = NoLocals
    /\ IF SLACK_WEBHOOK_URL
       THEN /\ log' = <<"requests.post">>
            /\ webhookPosts' = webhookPosts + 1
            /\ pc' = "posting"
            /\ UNCHANGED response
       ELSE /\ log' = <<>>
            /\ Respond(HttpError("Slack not configured"))
            /\ UNCHANGED webhookPosts
    /\ UNCHANGED <<configVars, workerVars, lead, signals, phase, history, draft, call>>

WebhookOutcomes == {"200", "other status", "raise"}

\* submit_brief, from the return of the POST to the end of the request
WebhookReturn(outcome) ==
    /\ pc = "posting"
    /\ log' = Append(log, "requests.post: " \o outcome)
    /\ IF outcome = "200"
       THEN Respond([status |-> 200, success |-> TRUE])
       ELSE Respond(HttpError(outcome))
    /\ UNCHANGED <<configVars, workerVars, lead, signals, phase, history, draft, call, request, locals, webhookPosts>>

\* the caller takes the response: it keeps the returned phase and, when its
\* history has room, the turn just exchanged
Receive ==
    /\ pc = "idle" /\ response # NoResponse
    /\ IF request.kind = "chat" /\ response.status = 200
       THEN /\ phase' = response.conversation_phase
            /\ history' =
                 IF Len(history) + 2 <= MaxHist
                 THEN history \o <<Msg("user", request.message),
                                   Msg("assistant", response.response)>>
                 ELSE history
       ELSE UNCHANGED <<phase, history>>
    /\ request' = NoRequest
    /\ locals' = NoLocals
    /\ log' = <<>>
    /\ response' = NoResponse
    /\ UNCHANGED <<configVars, workerVars, lead, signals, draft, call, pc, webhookPosts>>

\* the caller holds any history between two requests
LoadHistory(m) ==
    /\ pc = "idle" /\ response = NoResponse
    /\ AppendHistory(m)

DropHistory ==
    /\ pc = "idle" /\ response = NoResponse
    /\ ClearHistory

\* the timeout handed to the upstream call the handler waits in at position p:
\* requests.post is given ten seconds, generate_content is given none
call_timeout(p) == IF p = "posting" THEN Some(10) ELSE None

\* the timeout of the pending upstream call runs out: the call raises
UpstreamTimeout ==
    /\ pc \in {"generating", "extracting", "posting"}
    /\ call_timeout(pc) # None
    /\ WebhookReturn("raise")

Next ==
    \/ \E m \in ChatMessages, p \in {Some(phase)} \cup {q \in {None} : phase = "phase1"} :
          ChatStart(m, p)
    \/ \E o \in GenOutcomes : GenerateReturn(o)
    \/ \E o \in ExtractOutcomes : ExtractReturn(o)
    \/ \E b \in Briefs : SubmitStart(b)
    \/ \E o \in WebhookOutcomes : WebhookReturn(o)
    \/ UpstreamTimeout
    \/ Receive
    \/ \E m \in HistMsgs : LoadHistory(m)
    \/ DropHistory

Spec == Init /\ [][Next]_vars

IsChat == request.kind = "chat"

\* the request has ended and its response waits for the caller
Ended == pc = "idle" /\ response # NoResponse

\* the handler of the current request has done ev
Did(ev) == \E i \in 1..Len(log) : log[i] = ev

HowOften(ev) == Cardinality({i \in 1..Len(log) : log[i] = ev})

\* the answers of the gateway that are a LeadRecord mapping
LeadRecordTexts == {JsonLead, Fence \o "json\n" \o JsonGoalOnly \o "\n" \o Fence}

\* the extraction call failed, or answered with something that is no LeadRecord
ExtractionFailed(o) ==
    \/ o.kind = "raise"
    \/ o.text = None
    \/ o.text[1] \notin LeadRecordTexts

IsNullRecord(v) == v.t = "dict" /\ DOMAIN v.d = Fields /\ \A k \in Fields : v.d[k] = None

\* C7: whatever the extraction's gateway call comes to (an error, text that does
\* not parse, text that parses to something that is no LeadRecord mapping),
\* extract_data_with_ai returns the record of seven null fields.
C7_ExtractionFailureSafety ==
    (IsChat /\ Did("extract returns") /\ ExtractionFailed(locals.extract_outcome)) =>
        IsNullRecord(locals.extracted_data)

\* C8: a chat request whose reply was generated and whose extraction failed ends
\* with a successful response: the reply, the next phase, the all-null record
\* and should_submit_brief false.
C8_FailedExtractionKeepsTurn ==
    (IsChat /\ Ended /\ Did("extract returns")
        /\ ExtractionFailed(locals.extract_outcome)) =>
        /\ response.status = 200
        /\ response.response = locals.reply[1]
        /\ response.conversation_phase = locals.new_phase
        /\ IsNullRecord(response.extracted_data)
        /\ ~ response.should_submit_brief

\* the reply-generating call of the current request failed
GenerationFailed == Did("get_gemini_client raises") \/ Did("generate_content raises")

\* C9: when the reply-generating gateway call fails (it raises, or the credential
\* is missing) the request ends with a 500 that carries no reply, phase, record
\* or flag; the call is made at most once, and neither the extraction nor the
\* readiness gate runs.
C9_UpstreamFailure ==
    (IsChat /\ GenerationFailed) =>
        /\ Ended
        /\ response.status = 500
        /\ DOMAIN response = {"status", "detail"}
        /\ HowOften("generate_content") <= 1
        /\ ~ Did("extract: generate_content") /\ ~ Did("extract returns")
        /\ ~ Did("should_submit_brief returns") /\ ~ Did("should_submit_brief raises")

\* the gateway raises on a turn for which the extraction was due
C9_Witness ==
    /\ IsChat
    /\ Did("generate_content raises")
    /\ extraction_due(locals.current_phase, locals.new_phase)
    /\ locals.old_phase = "phase2" /\ locals.new_phase = "phase3"

\* C10: no step of the chat handler posts to the webhook or changes anything
\* that outlives the request, whatever should_submit_brief is; the webhook is
\* posted to only by a submit-brief request.
C10_GateOnlySignals ==
    [][/\ webhookPosts' # webhookPosts => request'.kind = "submit"
       /\ request'.kind = "chat" =>
             /\ webhookPosts' = webhookPosts
             /\ configVars' = configVars]_vars

\* a chat request ended with should_submit_brief true, and nothing was posted
C10_Witness ==
    /\ IsChat /\ Ended
    /\ response.status = 200
    /\ response.should_submit_brief
    /\ SLACK_WEBHOOK_URL
    /\ webhookPosts = 0

-----------------------------------------------------------------------------
(* SpecConc: the application served by two workers, each with a caller of  *)
(* its own. Every worker runs chat as the single worker of Spec does; at   *)
(* any moment the processor may pass from one worker to the other, so the  *)
(* steps of two requests interleave in every order. The workers share the  *)
(* configuration read at import and nothing else.                          *)

\* the running worker's caller and request
Context ==
    [phase |-> phase, history |-> history, pc |-> pc, request |-> request,
     locals |-> locals, log |-> log, response |-> response]

\* worker w, running or not
ContextOf(w) == IF w = running THEN Context ELSE parked[w]

\* the processor passes to worker w
Switch(w) ==
    /\ w # running
    /\ running' = w
    /\ parked' = [parked EXCEPT ![running] = Context, ![w] = NoContext]
    /\ phase' = parked[w].phase
    /\ history' = parked[w].history
    /\ pc' = parked[w].pc
    /\ request' = parked[w].request
    /\ locals' = parked[w].locals
    /\ log' = parked[w].log
    /\ response' = parked[w].response
    /\ UNCHANGED <<configVars, lead, signals, draft, call, webhookPosts>>

OfferedCall == <<Msg("assistant", "Would you like to schedule a discovery call?")>>

ConcHistories == {<<>>, OfferedCall}
ConcMessages == {"I need a chatbot", "Yes"}
ConcGenOutcomes ==
    {GatewayRaises, GatewayText(Some("Would you like to schedule a discovery call?"))}
ConcExtractOutcomes ==
    {GatewayRaises, GatewayText(Some(JsonLead)),
     GatewayText(Some(Fence \o "json\n" \o JsonGoalOnly \o "\n" \o Fence))}

InitConc ==
    /\ GOOGLE_API_KEY \in BOOLEAN
    /\ SLACK_WEBHOOK_URL = TRUE
    /\ phase \in Phases
    /\ history \in ConcHistories
    /\ draft = <<>>
    /\ call = NoCall
    /\ pc = "idle"
    /\ request = NoRequest
    /\ locals = NoLocals
    /\ log = <<>>
    /\ response = NoResponse
    /\ webhookPosts = 0
    /\ lead = PyNone
    /\ signals = 0
    /\ running = "w1"
    /\ \E p \in Phases, h \in ConcHistories :
          parked = [w \in Workers |->
                      IF w = "w1" THEN NoContext
                      ELSE [NoContext EXCEPT !.phase = p, !.history = h]]

NextConc ==
    \/ \E m \in ConcMessages : ChatStart(m, Some(phase))
    \/ \E o \in ConcGenOutcomes : GenerateReturn(o)
    \/ \E o \in ConcExtractOutcomes : ExtractReturn(o)
    \/ Receive
    \/ \E w \in Workers : Switch(w)

SpecConc == InitConc /\ [][NextConc]_vars

\* the phase a request's payload carries
SentPhase(req) ==
    IF req.conversation_phase = None THEN "phase1" ELSE req.conversation_phase[1]

\* the successful response of the chat request of context c holds what its own
\* payload and the gateway's two answers to it determine
OwnOutputs(c) ==
    (c.request.kind = "chat" /\ c.pc = "idle" /\ c.response.status = 200) =>
        LET m == c.request.message
            h == c.request.conversation_history
            old == SentPhase(c.request)
            next == detect_phase_transition(m, h, old)
            extracts == next \in {"phase2", "phase3"}
            turn == <<Msg("user", m), Msg("assistant", c.locals.reply[1])>>
            record == IF extracts
                      THEN extract_data_with_ai(h \o turn, c.locals.extract_outcome)
                      ELSE PyNone
            flag == IF extracts THEN should_submit_brief(record, old, next, m).v
                    ELSE FALSE
        IN  /\ c.response.response = c.locals.reply[1]
            /\ c.response.conversation_phase = next
            /\ c.response.extracted_data = record
            /\ c.response.should_submit_brief = flag

\* C11: however the steps of two chat requests interleave, the reply, next
\* phase, record and flag returned for each request are those its own payload
\* and the gateway's answers to it determine: what the other request sent,
\* received or left behind plays no part.
C11_RequestIndependence == \A w \in Workers : OwnOutputs(ContextOf(w))

\* two requests in flight at once, the second started and ended with the brief
\* ready while the first waits for its extraction
C11_Witness ==
    /\ \E w \in Workers : w # running /\ parked[w].pc = "extracting"
    /\ IsChat /\ Ended
    /\ response.status = 200
    /\ response.should_submit_brief

-----------------------------------------------------------------------------
(* Claims about failures of the webhook and of the configuration (Spec)    *)

IsSubmit == request.kind = "submit"

\* the submission could not be delivered
DeliveryFailed ==
    \/ ~ SLACK_WEBHOOK_URL
    \/ Did("requests.post: raise")
    \/ Did("requests.post: other status")

\* a chat request that ended in an error did so for a reason of its own
ChatFailsOnItsOwn ==
    (IsChat /\ Ended /\ response.status # 200) =>
        \/ ~ GOOGLE_API_KEY
        \/ Did("generate_content raises")
        \/ Did("generate_content returns") /\ locals.reply = None
        \/ Did("should_submit_brief raises")

\* C12: a submission that cannot be delivered (no webhook URL, the POST raises,
\* a status other than 200) ends in an error for that request; its steps leave
\* the conversation and the configuration as they were; every chat request,
\* whatever was submitted before it and whether or not a webhook URL is set,
\* returns what its own payload and gateway answers determine, and fails only
\* for a reason of its own.
C12_WebhookFailureIsLocal ==
    [][/\ (IsSubmit /\ Ended /\ DeliveryFailed) => response.status = 500
       /\ OwnOutputs(Context)
       /\ ChatFailsOnItsOwn
       /\ (IsSubmit \/ request'.kind = "submit") =>
             (phase' = phase /\ history' = history /\ configVars' = configVars)]_vars

\* in the middle of a conversation a submission fails at the webhook
C12_Witness ==
    /\ IsSubmit /\ Ended
    /\ Did("requests.post: raise")
    /\ response.status = 500
    /\ phase = "phase3" /\ history # <<>>

\* C13 as claimed: without the completion credential the process never accepts
\* and handles a chat request.
C13_FatalAtStartup_Claimed == ~ GOOGLE_API_KEY => ~ IsChat

\* C13: without the completion credential the process serves all the same; each
\* chat request is accepted, classified, and ended by get_gemini_client with
\* HTTP 500 "GOOGLE_API_KEY not found" before any gateway call is made.
C13_EachChatRequestFails ==
    (~ GOOGLE_API_KEY /\ IsChat) =>
        /\ Ended
        /\ response = HttpError("GOOGLE_API_KEY not found")
        /\ log = <<"get_gemini_client raises">>
        /\ locals.set /\ locals.new_phase \in Phases

\* without the credential a chat request was taken, moved to phase2 and failed
C13_Witness ==
    /\ ~ GOOGLE_API_KEY
    /\ IsChat /\ Ended
    /\ locals.old_phase = "phase1" /\ locals.new_phase = "phase2"
    /\ response.status = 500

\* C15: in a chat turn that succeeds the extractor is invoked if and only if the
\* next phase is phase2 or the turn moves from phase2 to phase3; on every other
\* turn (one that stays in phase3, one that stays in phase1) the extraction is
\* skipped and the extracted record returned is null.
C15_ExtractionGating ==
    (IsChat /\ Ended /\ response.status = 200) =>
        LET due == \/ locals.new_phase = "phase2"
                   \/ locals.old_phase = "phase2" /\ locals.new_phase = "phase3"
        IN  /\ Did("extract: generate_content") <=> due
            /\ ~ due => response.extracted_data = PyNone

-----------------------------------------------------------------------------
(* Sentinel strings in the readiness gate (SpecGate)                       *)

Sentinels == {"null", "n/a", "none"}

IsSentinel(v) == v # None /\ Lower(v[1]) \in Sentinels

\* the field is null, empty or a placeholder
Missing(rec, k) == rec[k] = None \/ rec[k] = Some("") \/ IsSentinel(rec[k])

\* C16: a field is present only if it is neither null nor a placeholder ("null",
\* "N/A", "none", letter case ignored): whenever workEmail is a placeholder, or
\* projectType and goal are both placeholders or null, should_submit_brief
\* returns false, whatever the phases and the message.
C16_SentinelsAreAbsent ==
    (IsGateCall /\ call.extracted_data.t = "dict") =>
        LET rec == call.extracted_data.d
        IN  (IsSentinel(rec["workEmail"])
                \/ (Missing(rec, "projectType") /\ Missing(rec, "goal")))
            => call.ret = Return(FALSE)

-----------------------------------------------------------------------------
(* SpecConv: one conversation from its first turn. The caller sends every  *)
(* request with the phase and the history it holds, and after a successful *)
(* turn keeps the returned phase, appends the turn to the history and      *)
(* keeps the returned record.                                              *)

MaxConvTurns == 3   \* turns of the conversation

ConvMessages == {"I need a chatbot", "Yes", "not now", "Yes, I need a call"}
ConvGenOutcomes == {GatewayRaises} \cup {GatewayText(Some(r)) : r \in Replies}
ConvExtractOutcomes ==
    {GatewayRaises, GatewayText(Some(JsonLead)),
     GatewayText(Some(Fence \o "json\n" \o JsonGoalOnly \o "\n" \o Fence))}

InitConv ==
    /\ GOOGLE_API_KEY = TRUE
    /\ SLACK_WEBHOOK_URL = TRUE
    /\ phase = "phase1"
    /\ history = <<>>
    /\ draft = <<>>
    /\ call = NoCall
    /\ ServerIdle

ConvChatStart(m) ==
    /\ Len(history) < 2 * MaxConvTurns
    /\ ChatStart(m, Some(phase))

\* the caller takes the response of a turn
ConvReceive ==
    /\ pc = "idle" /\ response # NoResponse
    /\ IF request.kind = "chat" /\ response.status = 200
       THEN /\ phase' = response.conversation_phase
            /\ history' = history \o <<Msg("user", request.message),
                                       Msg("assistant", response.response)>>
            /\ lead' = response.extracted_data
            /\ signals' = IF response.should_submit_brief THEN signals + 1 ELSE signals
       ELSE UNCHANGED <<phase, history, lead, signals>>
    /\ request' = NoRequest
    /\ locals' = NoLocals
    /\ log' = <<>>
    /\ response' = NoResponse
    /\ UNCHANGED <<configVars, workerVars, draft, call, pc, webhookPosts>>

NextConv ==
    \/ \E m \in ConvMessages : ConvChatStart(m)
    \/ \E o \in ConvGenOutcomes : GenerateReturn(o)
    \/ \E o \in ConvExtractOutcomes : ExtractReturn(o)
    \/ ConvReceive

SpecConv == InitConv /\ [][NextConv]_vars

\* field k of the record v holds a value
HasField(v, k) == v.t = "dict" /\ k \in DOMAIN v.d /\ v.d[k] # None

\* C17 as claimed: once a turn of the conversation has returned a field
\* non-null, the record of every later turn has that field non-null.
C17_FieldStickiness_Claimed ==
    [][\A k \in Fields : HasField(lead, k) => HasField(lead', k)]_vars

\* C17: the record a turn returns is that of its own extraction and nothing
\* else: all seven fields null when the extraction call fails, the fields the
\* gateway answered with otherwise, whatever the turns before have returned.
C17_LatestExtractionOnly ==
    (IsChat /\ Ended /\ response.status = 200 /\ Did("extract returns")) =>
        LET o == locals.extract_outcome
        IN  /\ o.kind = "raise" => IsNullRecord(response.extracted_data)
            /\ o = GatewayText(Some(JsonLead)) =>
                  response.extracted_data = PyDict(LeadValue)
            /\ o = GatewayText(Some(Fence \o "json\n" \o JsonGoalOnly \o "\n" \o Fence)) =>
                  response.extracted_data = PyDict(GoalOnlyValue)

\* the turn before returned the email; this turn's extraction failed and the
\* turn returns no email
C17_Witness ==
    /\ HasField(lead, "workEmail")
    /\ IsChat /\ Ended
    /\ response.status = 200
    /\ locals.extract_outcome.kind = "raise"
    /\ ~ HasField(response.extracted_data, "workEmail")

-----------------------------------------------------------------------------
(* SpecLoop: the requests of two callers served by the one event loop that *)
(* uvicorn.run starts. chat and submit_brief are coroutines of that loop;  *)
(* the loop turns to another request only when the running coroutine gives *)
(* it back.                                                                *)

\* the coroutine at position p gives the loop back: generate_content and
\* requests.post are plain calls, and awaiting extract_data_with_ai, which
\* awaits nothing, does not suspend; only the end of the handler does
yields_control(p) == p = "idle"

\* the loop turns to the request of worker w
LoopSwitch(w) ==
    /\ yields_control(pc)
    /\ Switch(w)

NextLoop ==
    \/ \E m \in ConcMessages : ChatStart(m, Some(phase))
    \/ \E o \in ConcGenOutcomes : GenerateReturn(o)
    \/ \E o \in ConcExtractOutcomes : ExtractReturn(o)
    \/ SubmitStart(LeadValue)
    \/ \E o \in WebhookOutcomes : WebhookReturn(o)
    \/ Receive
    \/ \E w \in Workers : LoopSwitch(w)

SpecLoop == InitConc /\ [][NextLoop]_vars

\* the running request waits for an upstream call to return
WaitsUpstream == pc \in {"generating", "extracting", "posting"}

\* C18: while a request waits for the gateway or for the webhook, the server
\* can turn to any other request: no request is held up only because another
\* request's upstream call has not returned.
C18_NonBlocking ==
    WaitsUpstream => \A w \in Workers \ {running} : ENABLED LoopSwitch(w)

-----------------------------------------------------------------------------
(* Claims about waiting and about the order of the steps of chat (Spec)    *)

\* C19: a request that waits for an upstream call never depends on the answer
\* to end: the call has a timeout that, when it runs out, ends the request with
\* an error; and each upstream call is made at most once in a request.
C19_BoundedWaiting ==
    /\ WaitsUpstream => ENABLED UpstreamTimeout
    /\ HowOften("generate_content") <= 1
    /\ HowOften("extract: generate_content") <= 1
    /\ HowOften("requests.post") <= 1

\* the phase that follows old for message m after history h, by the two rules
NextPhaseOf(old, m, h) ==
    IF old = "phase1" /\ ProjectIntent(m) THEN "phase2"
    ELSE IF old = "phase2" /\ AssistantOfferedCall(h) /\ UserAgrees(m) THEN "phase3"
    ELSE old

\* the system instruction that belongs to phase p
InstructionOf(p) ==
    CASE p = "phase1" -> "PHASE_1_SYSTEM"
      [] p = "phase2" -> "PHASE_2_SYSTEM"
      [] p = "phase3" -> "PHASE_3_SYSTEM"

\* C20: in every chat turn, once the gateway has been called the next phase has
\* been decided from the payload, the system instruction handed over is that of
\* the next phase, and a successful response returns that same phase as
\* conversation_phase.
C20_ClassifyBeforeGenerate ==
    (IsChat /\ Did("generate_content")) =>
        LET next == NextPhaseOf(SentPhase(request), request.message,
                                request.conversation_history)
        IN  /\ locals.new_phase = next
            /\ locals.system_prompt = InstructionOf(next)
            /\ (Ended /\ response.status = 200) => response.conversation_phase = next

\* the caller sent phase2; the gateway is being called with the instruction of
\* phase3
C20_Witness ==
    /\ IsChat /\ pc = "generating"
    /\ request.conversation_phase = Some("phase2")
    /\ locals.system_prompt = "PHASE_3_SYSTEM"

\* C21: the turns handed to the gateway are the caller's history, turn by turn
\* in its order, followed by the new user message; the transcript handed to
\* the extractor is that history followed by the user message and then the
\* reply of this turn; nothing is dropped, doubled or moved, and the caller's
\* history is as it was sent.
C21_TranscriptOrder ==
    (IsChat /\ locals.set) =>
        LET h == request.conversation_history
            n == Len(h)
        IN  /\ Len(locals.contents) = n + 1
            /\ \A i \in 1..n :
                  /\ locals.contents[i].text = h[i].content
                  /\ locals.contents[i].role = "user" <=> h[i].role = "user"
            /\ locals.contents[n + 1] = [role |-> "user", text |-> request.message]
            /\ Did("extract: generate_content") =>
                  /\ Len(locals.temp_history) = n + 2
                  /\ SubSeq(locals.temp_history, 1, n) = h
                  /\ locals.temp_history[n + 1] = Msg("user", request.message)
                  /\ locals.temp_history[n + 2] = Msg("assistant", locals.reply[1])
            /\ history = h

\* a request with a history of two turns whose extraction has been called
C21_Witness ==
    /\ IsChat /\ pc = "extracting"
    /\ Len(request.conversation_history) = 2
    /\ request.conversation_history[1] # request.conversation_history[2]
    /\ Len(locals.temp_history) = 4

-----------------------------------------------------------------------------
(* Claims about a whole conversation (SpecConv)                            *)

\* C22: over a conversation whose caller sends back the returned phase and
\* appends every turn, should_submit_brief is true on at most one turn.
C22_AtMostOneSignal == signals <= 1

\* C23: one call of detect_phase_transition moves the phase by one step at
\* most: from phase1 it never returns phase3, whatever the message and the last
\* assistant turn say; so a conversation that starts in phase1 is in its second
\* turn at least when it reaches phase3, and a turn that signals the brief was
\* sent in phase2, after an earlier turn.
C23_OneStepPerCall ==
    /\ phase = "phase3" => Len(history) >= 4
    /\ (IsChat /\ locals.set) =>
          /\ PhaseRank(locals.new_phase) - PhaseRank(locals.old_phase) \in {0, 1}
          /\ locals.old_phase = "phase1" => locals.new_phase # "phase3"
          /\ locals.new_phase = "phase3" => Len(request.conversation_history) >= 2
          /\ (Ended /\ response.status = 200 /\ response.should_submit_brief) =>
                /\ locals.old_phase = "phase2"
                /\ Len(request.conversation_history) >= 2

\* in phase1, after the assistant has offered a call, the user agrees and states
\* a project in one message: the turn goes to phase2
C23_Witness ==
    /\ IsChat /\ locals.set
    /\ locals.old_phase = "phase1"
    /\ request.message = "Yes, I need a call"
    /\ Len(request.conversation_history) = 2
    /\ request.conversation_history[2] =
          Msg("assistant", "Would you like to schedule a discovery call?")
    /\ locals.new_phase = "phase2"

=============================================================================
